---- MODULE Spec2Model ----
(***************************************************************************)
(* HypermediaElectron: the request dispatcher (exact and catch-all route   *)
(* tables, handleHTTP) and the SSE broadcast hub (handleSSE, the abort     *)
(* listener, broadcastContent, cleanup).                                   *)
(*                                                                         *)
(* Strings are sequences of one-character strings, so that endsWith,       *)
(* startsWith, slice and the trailing-slash regexp are computed as the     *)
(* code computes them.                                                     *)
(***************************************************************************)
EXTENDS Naturals, Sequences, FiniteSets

VARIABLES routes, dynamicRoutes, http, sseConnections, stream, aborted, last

vars == <<routes, dynamicRoutes, http, sseConnections, stream, aborted, last>>
routeVars == <<routes, dynamicRoutes, http>>
hubVars == <<sseConnections, stream, aborted>>

(* ------------------------------ bounds --------------------------------- *)
\* most entries the two route tables hold together
MaxRoutes == 2
\* most SSE connections ever opened
MaxConns == 2
\* most frames written to one sink
MaxFrames == 3
\* most paths in one datastarRemoveSignals call
MaxPaths == 2
\* most characters of a script given to datastarExecuteScript
MaxScriptLen == 3

(* ------------------------------ strings -------------------------------- *)
\* mutant: only the last character of the ending is compared
EndsWithLastChar(s, suf) ==
    /\ Len(s) >= 1
    /\ s[Len(s)] = suf[Len(suf)]

EndsWith(s, suf) ==
    /\ Len(s) >= Len(suf)
    /\ SubSeq(s, Len(s) - Len(suf) + 1, Len(s)) = suf

StartsWith(s, pre) ==
    /\ Len(s) >= Len(pre)
    /\ SubSeq(s, 1, Len(pre)) = pre

\* String.prototype.slice(n) for 0 <= n
SliceFrom(s, n) == SubSeq(s, n + 1, Len(s))

\* s.replace(/\/+$/, '')
RECURSIVE StripTrailingSlashes(_)
StripTrailingSlashes(s) ==
    IF Len(s) > 0 /\ s[Len(s)] = "/"
    THEN StripTrailingSlashes(SubSeq(s, 1, Len(s) - 1))
    ELSE s

ToUpperCase(m) ==
    CASE m = "get" -> "GET"
      [] m = "post" -> "POST"
      [] OTHER -> m

(* ------------------------------ inputs --------------------------------- *)
\* request.method, as the host delivers it
Methods == {"GET", "POST"}
\* the method argument of the registration calls
RegMethods == {"GET", "post"}
Handlers == {"h1", "h2"}
\* paths given to registerRoute: plain, and with a trailing slash
RoutePaths == {<<"/">>, <<"/", "a">>, <<"/", "a", "/">>}
\* patterns given to registerDynamicRoute: P ++ "/*" for P empty, "/a" and
\* "/a/", and patterns without the "/*" ending
Patterns == {<<"/", "*">>, <<"/", "a", "/", "*">>, <<"/", "a", "/", "/", "*">>,
             << >>, <<"*">>, <<"/", "a">>, <<"/", "a", "*">>}
\* the path component of a request URL: empty, or starting with "/"
ReqPaths == {<< >>, <<"/">>, <<"/", "a">>, <<"/", "a", "/">>, <<"/", "a", "a">>,
             <<"/", "/", "a">>, <<"/", "a", "/", "a">>, <<"/", "a", "/", "a", "/">>}

\* what a handler call can do: return a Response, or raise a value
\* (synchronously, or as the rejection of the promise it returned)
Raised == {[kind |-> "Error", message |-> "boom"],
           [kind |-> "string", value |-> "boom"],
           [kind |-> "null"]}
Outcomes == {[ok |-> TRUE]} \cup {[ok |-> FALSE, raised |-> r] : r \in Raised}

(* ---------------------------- route tables ----------------------------- *)
\* `${method}:${path}`
RouteKey(method, path) == <<method, ":">> \o path

\* `${method}:${prefix}:dynamic`
DynamicKey(method, prefix) == <<method, ":">> \o prefix \o <<":dynamic">>

\* path.slice(0, -2).replace(/\/+$/, '')
DynamicPrefix(path) == StripTrailingSlashes(SubSeq(path, 1, Len(path) - 2))

TableSize == Cardinality(DOMAIN routes) + Len(dynamicRoutes)

\* mutant: a key that is set again moves to the end of the table
DynamicSetMovesToEnd(table, key, value) ==
    LET others == SelectSeq(table, LAMBDA e : e.key # key)
    IN  Append(others, [key |-> key, prefix |-> value.prefix, handler |-> value.handler])

\* Map.prototype.set on the insertion-ordered dynamic table
DynamicSet(table, key, value) ==
    IF \E i \in 1..Len(table) : table[i].key = key
    THEN [i \in 1..Len(table) |->
            IF table[i].key = key
            THEN [key |-> key, prefix |-> value.prefix, handler |-> value.handler]
            ELSE table[i]]
    ELSE Append(table, [key |-> key, prefix |-> value.prefix, handler |-> value.handler])

\* mutant: a key that is set again keeps its first handler
RouteSetKeepsFirst(table, key, handler) ==
    [k \in DOMAIN table \cup {key} |-> IF k \in DOMAIN table THEN table[k] ELSE handler]

\* Map.prototype.set on the exact table
RouteSet(table, key, handler) ==
    [k \in DOMAIN table \cup {key} |-> IF k = key THEN handler ELSE table[k]]

registerRoute(path, handler, method) ==
    LET routeKey == RouteKey(ToUpperCase(method), path) IN
    /\ routeKey \in DOMAIN routes \/ TableSize < MaxRoutes
    /\ routes' = RouteSet(routes, routeKey, handler)
    /\ last' = [op |-> "registerRoute", threw |-> FALSE]
    /\ UNCHANGED <<dynamicRoutes, http, hubVars>>

registerDynamicRoute(path, handler, method) ==
    IF ~EndsWith(path, <<"/", "*">>)
    THEN /\ last' = [op |-> "registerDynamicRoute", threw |-> TRUE]
         /\ UNCHANGED <<routes, dynamicRoutes, http, hubVars>>
    ELSE LET prefix == DynamicPrefix(path)
             dynamicKey == DynamicKey(ToUpperCase(method), prefix)
         IN  /\ (\E i \in 1..Len(dynamicRoutes) : dynamicRoutes[i].key = dynamicKey)
                    \/ TableSize < MaxRoutes
             /\ dynamicRoutes' = DynamicSet(dynamicRoutes, dynamicKey,
                                            [prefix |-> prefix, handler |-> handler])
             /\ last' = [op |-> "registerDynamicRoute", threw |-> FALSE]
             /\ UNCHANGED <<routes, http, hubVars>>

(* ------------------------------ handleHTTP ----------------------------- *)
\* new URL(request.url).pathname: never empty for a standard scheme
URLPathname(path) == IF path = << >> THEN <<"/">> ELSE path

\* mutant: the pathname is used as the URL gives it
NormalizePathKeeps(path) == URLPathname(path)

\* url.pathname.replace(/\/+$/, '') || '/'
NormalizePath(path) ==
    LET stripped == StripTrailingSlashes(URLPathname(path)) IN
    IF stripped = << >> THEN <<"/">> ELSE stripped

\* mutant: the prefix test without the segment boundary
DynamicMatchesRawPrefix(entry, method, pathname) ==
    /\ StartsWith(entry.key, <<method, ":">>)
    /\ StartsWith(pathname, entry.prefix)

\* mutant: the test of the scan without the method
DynamicMatchesAnyMethod(entry, method, pathname) ==
    \/ pathname = entry.prefix
    \/ StartsWith(pathname, entry.prefix \o <<"/">>)

\* the test of the dynamic-route scan
DynamicMatches(entry, method, pathname) ==
    /\ StartsWith(entry.key, <<method, ":">>)
    /\ \/ pathname = entry.prefix
       \/ StartsWith(pathname, entry.prefix \o <<"/">>)

\* mutant: the separating slash is left in the remainder
DynamicPathKeepsSlash(prefix, pathname) ==
    IF pathname = prefix THEN << >> ELSE SliceFrom(pathname, Len(prefix))

\* pathname === prefix ? '' : pathname.slice(prefix.length + 1)
DynamicPath(prefix, pathname) ==
    IF pathname = prefix THEN << >> ELSE SliceFrom(pathname, Len(prefix) + 1)

\* index of the first matching entry of the scan, 0 if the scan finds none
FirstDynamic(method, pathname) ==
    IF \E i \in 1..Len(dynamicRoutes) : DynamicMatches(dynamicRoutes[i], method, pathname)
    THEN CHOOSE i \in 1..Len(dynamicRoutes) :
            /\ DynamicMatches(dynamicRoutes[i], method, pathname)
            /\ \A j \in 1..(i - 1) : ~DynamicMatches(dynamicRoutes[j], method, pathname)
    ELSE 0

\* mutant: the dynamic scan runs before the exact lookup
ResolveDynamicFirst(method, path) ==
    LET pathname == NormalizePath(path)
        exactKey == RouteKey(method, pathname)
        i == FirstDynamic(method, pathname)
    IN  IF i > 0
        THEN <<[table |-> "dynamic", handler |-> dynamicRoutes[i].handler,
                dynamicPath |-> DynamicPath(dynamicRoutes[i].prefix, pathname)]>>
        ELSE IF exactKey \in DOMAIN routes
        THEN <<[table |-> "exact", handler |-> routes[exactKey], dynamicPath |-> << >>]>>
        ELSE << >>

\* the handler call handleHTTP makes for the request, if any
Resolve(method, path) ==
    LET pathname == NormalizePath(path)
        exactKey == RouteKey(method, pathname)
        i == FirstDynamic(method, pathname)
    IN  IF exactKey \in DOMAIN routes
        THEN <<[table |-> "exact", handler |-> routes[exactKey], dynamicPath |-> << >>]>>
        ELSE IF i > 0
        THEN <<[table |-> "dynamic", handler |-> dynamicRoutes[i].handler,
                dynamicPath |-> DynamicPath(dynamicRoutes[i].prefix, pathname)]>>
        ELSE << >>

NotFound == [settled |-> "fulfilled", status |-> 404, body |-> <<"Not Found">>]
Handled == [settled |-> "fulfilled", status |-> 200, body |-> <<"handler response">>]

\* (error as Error).message
MessageOf(raised) ==
    CASE raised.kind = "Error" -> raised.message
      [] OTHER -> "undefined"

\* the catch block: reading .message of null raises inside the catch block,
\* and the promise handleHTTP returned rejects
CatchBlock(raised) ==
    IF raised.kind = "null"
    THEN [settled |-> "rejected", status |-> 0, body |-> <<"TypeError">>]
    ELSE [settled |-> "fulfilled", status |-> 500,
          body |-> <<"Server Error: ", MessageOf(raised)>>]

Settle(outcome) == IF outcome.ok THEN Handled ELSE CatchBlock(outcome.raised)

\* mutant: after the catch block the scan goes on to the dynamic routes, and
\* calls the same handler again where none fits
AfterCatchFallsThrough(calls, method, path) ==
    LET pathname == NormalizePath(path)
        i == FirstDynamic(method, pathname)
    IN  IF calls[1].table = "exact" /\ i > 0
        THEN calls \o <<[table |-> "dynamic", handler |-> dynamicRoutes[i].handler,
                         dynamicPath |-> DynamicPath(dynamicRoutes[i].prefix, pathname)]>>
        ELSE calls \o calls

\* the handler calls made once the catch block has run: the catch block
\* returns the 500 response, so no call follows the failed one
AfterCatch(calls, method, path) == calls

Idle == [phase |-> "idle"]

\* handleHTTP up to its first suspension: the handler is called, and either
\* it has returned or raised at once (sync) or its promise is awaited
handleHTTP(method, path, sync, outcome) ==
    LET calls == Resolve(method, path) IN
    /\ http = Idle
    /\ http' = [phase |-> IF calls = << >> \/ sync THEN "done" ELSE "awaiting",
                method |-> method, path |-> path,
                calls |-> IF calls # << >> /\ sync /\ ~outcome.ok
                          THEN AfterCatch(calls, method, path) ELSE calls,
                failure |-> IF calls # << >> /\ sync /\ ~outcome.ok
                            THEN <<outcome.raised>> ELSE << >>,
                response |-> IF calls = << >> THEN <<NotFound>>
                             ELSE IF sync THEN <<Settle(outcome)>> ELSE << >>]
    /\ UNCHANGED <<routes, dynamicRoutes, hubVars, last>>

\* the awaited promise settles and handleHTTP resumes
handleHTTPResume(outcome) ==
    /\ http.phase = "awaiting"
    /\ http' = [http EXCEPT !.phase = "done",
                            !.calls = IF outcome.ok THEN @
                                      ELSE AfterCatch(@, http.method, http.path),
                            !.failure = IF outcome.ok THEN << >> ELSE <<outcome.raised>>,
                            !.response = <<Settle(outcome)>>]
    /\ UNCHANGED <<routes, dynamicRoutes, hubVars, last>>

\* the host takes the settled result of handleHTTP
HostTakesResponse ==
    /\ http.phase = "done"
    /\ http' = Idle
    /\ UNCHANGED <<routes, dynamicRoutes, hubVars, last>>

(* ---------------------------- the SSE hub ------------------------------ *)
EventNames == {"ping"}
\* broadcast contents: one line, and two lines separated by "\n"
Contents == {<<"a">>, <<"a", "\n", "b">>}

\* mutant: the content is not split into lines
SplitNone(content) == <<content>>

\* content.split('\n')
RECURSIVE Split(_)
Split(content) ==
    IF \E i \in 1..Len(content) : content[i] = "\n"
    THEN LET i == CHOOSE k \in 1..Len(content) :
                    /\ content[k] = "\n"
                    /\ \A j \in 1..(k - 1) : content[j] # "\n"
         IN  <<SubSeq(content, 1, i - 1)>> \o Split(SubSeq(content, i + 1, Len(content)))
    ELSE <<content>>

\* lines.map(line => `data: ${line}`).join('\n')
RECURSIVE DataLines(_)
DataLines(lines) ==
    IF Len(lines) = 1
    THEN <<"data: ">> \o lines[1]
    ELSE <<"data: ">> \o lines[1] \o <<"\n">> \o DataLines(Tail(lines))

\* `event: ${eventName}\n${formattedContent}\n\n`
Frame(eventName, content) ==
    <<"event: ", eventName, "\n">> \o DataLines(Split(content)) \o <<"\n", "\n">>

\* 'event: connected\ndata: {"status": "connected"}\n\n'
ConnectedFrame == <<"event: ", "connected", "\n", "data: ", "{\"status\": \"connected\"}", "\n", "\n">>

\* new PassThrough()
NewStream == [state |-> "open", written |-> << >>, closes |-> 0]

\* mutant: a frame is put in front of the frames already written
StreamWritePrepends(s, frame) ==
    CASE s.state = "open" -> [s EXCEPT !.written = <<frame>> \o @]
      [] s.state = "ended" -> [s EXCEPT !.state = "destroyed"]
      [] OTHER -> s

\* stream.write(frame): an open sink takes the frame; a write after end is
\* refused and destroys the sink; a destroyed sink ignores it
StreamWrite(s, frame) ==
    CASE s.state = "open" -> [s EXCEPT !.written = Append(@, frame)]
      [] s.state = "ended" -> [s EXCEPT !.state = "destroyed"]
      [] OTHER -> s

\* stream.end(): closes an open sink (closes counts the closes performed),
\* and has no effect on a sink that is ended or destroyed
StreamEnd(s) ==
    IF s.state = "open"
    THEN [s EXCEPT !.state = "ended", !.closes = @ + 1]
    ELSE s

Connections == DOMAIN stream

\* mutant: the listener ends the sink and forgets the delete
AbortConnectionsKeeps(c) == sseConnections

\* the body of the abort listener of connection c
AbortConnections(c) == sseConnections \ {c}
AbortStreams(c) == [stream EXCEPT ![c] = StreamEnd(@)]

\* a connection has left the set though its signal has not fired: only
\* cleanup removes such a connection, so cleanup has run
CleanupHasRun == \E c \in Connections \ aborted : c \notin sseConnections

\* mutant: once cleanup has run, a new connection is not added to the set
handleSSEClosedAfterCleanup ==
    LET connection == Cardinality(Connections) + 1 IN
    /\ connection <= MaxConns
    /\ sseConnections' = IF CleanupHasRun THEN sseConnections
                         ELSE sseConnections \cup {connection}
    /\ stream' = [c \in Connections \cup {connection} |->
                    IF c = connection THEN StreamWrite(NewStream, ConnectedFrame)
                    ELSE stream[c]]
    /\ last' = [op |-> "handleSSE", threw |-> FALSE]
    /\ UNCHANGED <<routeVars, aborted>>

handleSSE ==
    LET connection == Cardinality(Connections) + 1 IN
    /\ connection <= MaxConns
    /\ sseConnections' = sseConnections \cup {connection}
    /\ stream' = [c \in Connections \cup {connection} |->
                    IF c = connection THEN StreamWrite(NewStream, ConnectedFrame)
                    ELSE stream[c]]
    /\ last' = [op |-> "handleSSE", threw |-> FALSE]
    /\ UNCHANGED <<routeVars, aborted>>

\* request.signal fires 'abort' (at most once per signal)
abortListener(c) ==
    /\ c \in Connections \ aborted
    /\ aborted' = aborted \cup {c}
    /\ sseConnections' = AbortConnections(c)
    /\ stream' = AbortStreams(c)
    /\ last' = [op |-> "abort", threw |-> FALSE]
    /\ UNCHANGED routeVars

\* mutant: the write loop runs over every connection ever opened
BroadcastTargetsEver == {c \in Connections : stream[c].state # "destroyed"}

\* the targets of the write loop of broadcastContent
BroadcastTargets == {c \in sseConnections : stream[c].state # "destroyed"}

broadcastContent(eventName, content) ==
    /\ \A c \in sseConnections : Len(stream[c].written) < MaxFrames
    /\ stream' = [c \in Connections |->
                    IF c \in BroadcastTargets
                    THEN StreamWrite(stream[c], Frame(eventName, content))
                    ELSE stream[c]]
    /\ last' = [op |-> "broadcastContent", threw |-> FALSE]
    /\ UNCHANGED <<routeVars, sseConnections, aborted>>

\* mutant: cleanup clears the set and ends no sink
CleanupTargetsNone == {}

\* the sinks cleanup ends
CleanupTargets == {c \in sseConnections : stream[c].state # "destroyed"}

cleanup ==
    /\ stream' = [c \in Connections |->
                    IF c \in CleanupTargets THEN StreamEnd(stream[c]) ELSE stream[c]]
    /\ sseConnections' = {}
    /\ last' = [op |-> "cleanup", threw |-> FALSE]
    /\ UNCHANGED <<routeVars, aborted>>

\* the host cancels the body of a live response (Readable.toWeb hands it the
\* stream), which destroys the stream without any signal firing
streamDestroyed(c) ==
    /\ c \in Connections
    /\ stream[c].state = "open"
    /\ stream' = [stream EXCEPT ![c].state = "destroyed"]
    /\ last' = [op |-> "destroy", threw |-> FALSE]
    /\ UNCHANGED <<routeVars, sseConnections, aborted>>

(* --------------------------- frame encoders ---------------------------- *)
\* the sequences over chars of length lo..hi
StringsOver(chars, lo, hi) == UNION {[1..n -> chars] : n \in lo..hi}

\* signal paths, selectors, merge modes, HTML and script texts
SignalPaths == {<<"a">>, <<"a", ".", "b">>}
Selectors == {<<"#", "a">>, <<"#", "b">>}
MergeModes == {<<"inner">>, <<"outer">>}
Htmls == StringsOver({"x", "\n"}, 0, 2)
Scripts == StringsOver({"x", " ", "\n"}, 0, MaxScriptLen)
\* signal objects, as the sequence of their entries
SignalObjects == {<< >>, <<[key |-> "a", value |-> "1"]>>,
                  <<[key |-> "a", value |-> "1"], [key |-> "b", value |-> "true"]>>}
\* the paths argument: one path, or an array of paths
PathsArguments ==
    {[isArray |-> FALSE, path |-> q] : q \in SignalPaths}
        \cup {[isArray |-> TRUE, items |-> a] : a \in StringsOver(SignalPaths, 0, MaxPaths)}

\* Array.prototype.join
RECURSIVE Join(_, _)
Join(parts, sep) ==
    IF parts = << >> THEN << >>
    ELSE IF Len(parts) = 1 THEN parts[1]
    ELSE parts[1] \o <<sep>> \o Join(Tail(parts), sep)

IsSpace(ch) == ch \in {" ", "\n"}

\* String.prototype.trim
RECURSIVE Trim(_)
Trim(str) ==
    IF str = << >> THEN str
    ELSE IF IsSpace(str[1]) THEN Trim(Tail(str))
    ELSE IF IsSpace(str[Len(str)]) THEN Trim(SubSeq(str, 1, Len(str) - 1))
    ELSE str

\* html.replace(/\n/g, '')
RemoveNewlines(html) == SelectSeq(html, LAMBDA ch : ch # "\n")

\* JSON.stringify of a flat object
JSONStringify(signals) ==
    <<"{">> \o Join([i \in 1..Len(signals) |->
                        <<"\"", signals[i].key, "\"", ":", signals[i].value>>], ",")
          \o <<"}">>

\* String(autoRemove) in the template literal
BooleanToString(b) == IF b THEN "true" ELSE "false"

datastarConnected ==
    <<"event: ", "datastar-connected", "\n", "data: ", "{\"status\": \"connected\"}", "\n", "\n">>

datastarMergeSignals(signals) ==
    <<"event: ", "datastar-merge-signals", "\n", "data: ", "signals ">>
        \o JSONStringify(signals) \o <<"\n", "\n">>

datastarMergeFragments(selector, html, mergeMode) ==
    Join(<< <<"event: ", "datastar-merge-fragments">>,
            <<"data: ", "selector ">> \o selector,
            <<"data: ", "mergeMode ">> \o mergeMode,
            <<"data: ", "fragments ">> \o RemoveNewlines(html) >>, "\n")
        \o <<"\n", "\n">>

\* the loop over scriptLines
RECURSIVE ScriptLines(_)
ScriptLines(lines) ==
    IF lines = << >> THEN << >>
    ELSE <<"data: ", "script ">> \o Trim(lines[1]) \o <<"\n">> \o ScriptLines(Tail(lines))

datastarExecuteScript(script, autoRemove) ==
    LET scriptLines == Split(Trim(script)) IN
    <<"event: ", "datastar-execute-script", "\n">>
        \o <<"data: ", "autoRemove ", BooleanToString(autoRemove), "\n">>
        \o ScriptLines(scriptLines)
        \o <<"\n">>

datastarRemoveSignals(paths) ==
    LET pathsArray == IF paths.isArray THEN paths.items ELSE <<paths.path>> IN
    Join(<< <<"event: ", "datastar-remove-signals">> >>
            \o [i \in 1..Len(pathsArray) |-> <<"data: ", "paths ">> \o pathsArray[i]], "\n")
        \o <<"\n", "\n">>

datastarRemoveFragments(selector) ==
    Join(<< <<"event: ", "datastar-remove-fragments">>,
            <<"data: ", "selector ">> \o selector >>, "\n")
        \o <<"\n", "\n">>

\* a call of an encoder: the string it returns is recorded with its input
Encoded(op, input, output) ==
    /\ last' = [op |-> op, threw |-> FALSE, input |-> input, output |-> output]
    /\ UNCHANGED <<routeVars, hubVars>>

(* ------------------------------ the model ------------------------------ *)
Init ==
    /\ routes = << >>
    /\ dynamicRoutes = << >>
    /\ http = Idle
    /\ sseConnections = {}
    /\ stream = << >>
    /\ aborted = {}
    /\ last = [op |-> "constructor", threw |-> FALSE]

RegisterRoute == \E p \in RoutePaths, h \in Handlers, m \in RegMethods : registerRoute(p, h, m)
\* a call that is rejected for its pattern does not depend on handler or method
RegisterDynamicRoute ==
    \E p \in Patterns :
        IF EndsWith(p, <<"/", "*">>)
        THEN \E h \in Handlers, m \in RegMethods : registerDynamicRoute(p, h, m)
        ELSE registerDynamicRoute(p, "h1", "GET")
\* a request that resolves to no handler has no handler behaviour to choose
HandleHTTP ==
    /\ http = Idle
    /\ \E m \in Methods, p \in ReqPaths :
          IF Resolve(m, p) = << >>
          THEN handleHTTP(m, p, TRUE, [ok |-> TRUE])
          ELSE \E sync \in BOOLEAN, o \in Outcomes : handleHTTP(m, p, sync, o)
HandleHTTPResume == \E o \in Outcomes : handleHTTPResume(o)

DispatchNext ==
    \/ RegisterRoute
    \/ RegisterDynamicRoute
    \/ HandleHTTP
    \/ HandleHTTPResume
    \/ HostTakesResponse

SpecDispatch == Init /\ [][DispatchNext]_vars

\* the route tables under registration and resolution: requests whose
\* handler, where one is resolved, returns its Response at once
HandleHTTPReturns ==
    /\ http = Idle
    /\ \E m \in Methods, p \in ReqPaths : handleHTTP(m, p, TRUE, [ok |-> TRUE])

TablesNext ==
    \/ RegisterRoute
    \/ RegisterDynamicRoute
    \/ HandleHTTPReturns
    \/ HostTakesResponse

SpecTables == Init /\ [][TablesNext]_vars

HandleSSE == handleSSE
AbortListener == \E c \in 1..MaxConns : abortListener(c)
BroadcastContent == \E e \in EventNames, content \in Contents : broadcastContent(e, content)
Cleanup == cleanup
StreamDestroyed == \E c \in 1..MaxConns : streamDestroyed(c)

HubNext ==
    \/ HandleSSE
    \/ AbortListener
    \/ BroadcastContent
    \/ Cleanup
    \/ StreamDestroyed

SpecHub == Init /\ [][HubNext]_vars

DatastarConnected == Encoded("datastarConnected", << >>, datastarConnected)
DatastarMergeSignals ==
    \E signals \in SignalObjects :
        Encoded("datastarMergeSignals", <<signals>>, datastarMergeSignals(signals))
DatastarMergeFragments ==
    \E selector \in Selectors, html \in Htmls, mergeMode \in MergeModes :
        Encoded("datastarMergeFragments", <<selector, html, mergeMode>>,
                datastarMergeFragments(selector, html, mergeMode))
DatastarExecuteScript ==
    \E script \in Scripts, autoRemove \in BOOLEAN :
        Encoded("datastarExecuteScript", <<script, autoRemove>>,
                datastarExecuteScript(script, autoRemove))
DatastarRemoveSignals ==
    \E paths \in PathsArguments :
        Encoded("datastarRemoveSignals", <<paths>>, datastarRemoveSignals(paths))
DatastarRemoveFragments ==
    \E selector \in Selectors :
        Encoded("datastarRemoveFragments", <<selector>>, datastarRemoveFragments(selector))

EncodersNext ==
    \/ DatastarConnected
    \/ DatastarMergeSignals
    \/ DatastarMergeFragments
    \/ DatastarExecuteScript
    \/ DatastarRemoveSignals
    \/ DatastarRemoveFragments

SpecEncoders == Init /\ [][EncodersNext]_vars

Next == DispatchNext \/ HubNext
Spec == Init /\ [][Next]_vars

(* ------------------------- dispatcher properties ----------------------- *)
\* a step in which handleHTTP starts on a request
DispatchStep == http = Idle /\ http' # Idle

ExactCall(handler) == <<[table |-> "exact", handler |-> handler, dynamicPath |-> << >>]>>
DynamicCall(handler, remainder) ==
    <<[table |-> "dynamic", handler |-> handler, dynamicPath |-> remainder]>>

\* prefix equals the path, or is an ancestor of it at a segment boundary
SegmentBounded(prefix, pathname) ==
    \/ pathname = prefix
    \/ /\ Len(pathname) > Len(prefix)
       /\ SubSeq(pathname, 1, Len(prefix)) = prefix
       /\ pathname[Len(prefix) + 1] = "/"

\* entry i of the dynamic table is registered under method and fits the path
Fits(i, method, pathname) ==
    /\ dynamicRoutes[i].key[1] = method
    /\ SegmentBounded(dynamicRoutes[i].prefix, pathname)

\* C1: when the normalized request path has an exact route under the
\* request's method, handleHTTP calls exactly that route's handler and no
\* dynamic-route handler, whatever the dynamic table holds.
C1_ExactWins ==
    [][DispatchStep =>
        LET exactKey == RouteKey(http'.method, NormalizePath(http'.path)) IN
        exactKey \in DOMAIN routes => http'.calls = ExactCall(routes[exactKey])]_vars

\* an exact handler was called although a dynamic route of the same method
\* also matches the path
C1_Witness ==
    /\ http # Idle
    /\ http.calls # << >>
    /\ http.calls[1].table = "exact"
    /\ RouteKey(http.method, NormalizePath(http.path)) \in DOMAIN routes
    /\ \E i \in 1..Len(dynamicRoutes) : Fits(i, http.method, NormalizePath(http.path))

\* C2: when the resolved handler raises or rejects, with any raised value,
\* handleHTTP fulfils with a status-500 response whose body embeds the
\* failure's message, and never rejects.
C2_FailureBecomes500 ==
    (http # Idle /\ http.phase = "done" /\ http.failure # << >>) =>
        LET response == http.response[1]
            raised == http.failure[1]
        IN  /\ response.settled = "fulfilled"
            /\ response.status = 500
            /\ raised.kind = "Error" => response.body = <<"Server Error: ", raised.message>>

\* C8: a request whose method and path are those a route was registered
\* with calls that route's handler and no dynamic-route handler.
C8_RegisteredPathIsServed ==
    [][DispatchStep =>
        LET routeKey == RouteKey(http'.method, http'.path) IN
        routeKey \in DOMAIN routes => http'.calls = ExactCall(routes[routeKey])]_vars

\* C9: where no exact route matches and entry i is the first dynamic route
\* of the request's method that fits, with prefix P: the request for P calls
\* its handler with remainder "", and the request for P/r calls it with r
\* (less the trailing slashes normalization strips), for every prefix P the
\* table holds, the empty one included.
C9_Remainder ==
    [][DispatchStep =>
        LET method == http'.method
            path == http'.path
            pathname == NormalizePath(path)
        IN  RouteKey(method, pathname) \notin DOMAIN routes =>
            \A i \in 1..Len(dynamicRoutes) :
                LET P == dynamicRoutes[i].prefix
                    handler == dynamicRoutes[i].handler
                IN  (/\ dynamicRoutes[i].key[1] = method
                     /\ \A j \in 1..(i - 1) : ~Fits(j, method, pathname)) =>
                    /\ path = P => http'.calls = DynamicCall(handler, << >>)
                    /\ StartsWith(path, P \o <<"/">>) =>
                         http'.calls = DynamicCall(handler,
                             StripTrailingSlashes(SliceFrom(path, Len(P) + 1)))]_vars

\* the route with the empty prefix was called with the remainder "a/a"
C9_Witness ==
    /\ http # Idle
    /\ http.path = <<"/", "a", "/", "a">>
    /\ http.calls # << >>
    /\ http.calls[1].table = "dynamic"
    /\ http.calls[1].dynamicPath = <<"a", "/", "a">>
    /\ \E i \in 1..Len(dynamicRoutes) : dynamicRoutes[i].prefix = << >>

\* C10: where no exact route matches, handleHTTP calls the first dynamic
\* route in table order that is of the request's method and whose prefix is
\* the path or a segment-bounded ancestor of it, and calls none if there is
\* no such route: neither a longer prefix registered later nor a prefix that
\* fits only as a raw string prefix is chosen.
C10_FirstSegmentMatch ==
    [][DispatchStep =>
        LET method == http'.method
            pathname == NormalizePath(http'.path)
            fitting == {i \in 1..Len(dynamicRoutes) : Fits(i, method, pathname)}
        IN  RouteKey(method, pathname) \notin DOMAIN routes =>
            IF fitting = {}
            THEN http'.calls = << >>
            ELSE LET first == CHOOSE i \in fitting : \A j \in fitting : i <= j
                     P == dynamicRoutes[first].prefix
                 IN  /\ Len(http'.calls) = 1
                     /\ http'.calls[1].table = "dynamic"
                     /\ http'.calls[1].handler = dynamicRoutes[first].handler
                     /\ P \o (IF pathname = P THEN << >> ELSE <<"/">>)
                          \o http'.calls[1].dynamicPath = pathname]_vars

\* two dynamic routes fit the request, the later one with the longer
\* prefix, and the earlier one was called
C10_Witness ==
    /\ http # Idle
    /\ Len(dynamicRoutes) = 2
    /\ Fits(1, http.method, NormalizePath(http.path))
    /\ Fits(2, http.method, NormalizePath(http.path))
    /\ Len(dynamicRoutes[2].prefix) > Len(dynamicRoutes[1].prefix)
    /\ dynamicRoutes[1].handler # dynamicRoutes[2].handler
    /\ http.calls # << >>
    /\ http.calls[1].table = "dynamic"
    /\ http.calls[1].handler = dynamicRoutes[1].handler

(* ----------------------------- hub properties -------------------------- *)
\* C3: a connection that is no longer in the connection set (its signal
\* fired, or cleanup removed it) is never written to again: no step adds a
\* frame to its sink, and broadcastContent does not touch its sink at all
\* (a write to an ended sink would be refused and destroy it).
C3_NoWriteAfterRemoval ==
    [][\A c \in Connections \ sseConnections :
        /\ stream'[c].written = stream[c].written
        /\ last'.op = "broadcastContent" => stream'[c] = stream[c]]_vars

\* a broadcast has just written to a member while a removed connection
\* holds fewer frames
C3_Witness ==
    /\ last.op = "broadcastContent"
    /\ \E c \in Connections \ sseConnections, d \in sseConnections :
          Len(stream[d].written) > Len(stream[c].written)

\* C4: every member of the connection set has an open sink.
C4_MembersAreOpen == \A c \in sseConnections : stream[c].state = "open"

\* C5: once its signal has fired a connection is out of the set and is not
\* written to by any later step; running the listener again would change
\* neither the set nor any sink; and a first firing that finds the
\* connection already removed (after cleanup) changes neither.
C5_AbortRemovesOnce ==
    [][/\ \A c \in aborted' :
            /\ c \notin sseConnections'
            /\ AbortConnections(c)' = sseConnections'
            /\ AbortStreams(c)' = stream'
       /\ \A c \in aborted : stream'[c].written = stream[c].written
       /\ \A c \in aborted' \ aborted :
            c \notin sseConnections =>
                /\ sseConnections' = sseConnections
                /\ stream' = stream]_vars

\* a broadcast ran after a signal fired: a member holds more frames than
\* the aborted connection
C5_Witness ==
    /\ last.op = "broadcastContent"
    /\ \E c \in aborted, d \in sseConnections \ aborted :
          /\ stream[c].state = "ended"
          /\ Len(stream[d].written) > Len(stream[c].written)

\* the signal of a connection fired after cleanup had removed and closed it
C5_WitnessAfterCleanup ==
    /\ last.op = "abort"
    /\ \E c \in aborted, d \in Connections \ aborted :
          /\ sseConnections = {}
          /\ stream[c].state = "ended"
          /\ stream[d].state = "ended"

C7_BroadcastRemovesBroken ==
    last.op = "broadcastContent" =>
        /\ ~last.threw
        /\ \A c \in sseConnections : stream[c].state = "open"

(* ------------------- dispatcher properties, continued ------------------ *)
\* the pattern ends in "/" followed by "*"
HasWildcardEnding(pattern) ==
    /\ Len(pattern) >= 2
    /\ pattern[Len(pattern) - 1] = "/"
    /\ pattern[Len(pattern)] = "*"

\* C11: a registerDynamicRoute call whose pattern does not end in "/*"
\* fails, and leaves the exact table and the dynamic table as they were.
C11_InvalidPatternRejected ==
    [][(last'.op = "registerDynamicRoute" /\ http' = http) =>
        /\ \A p \in {q \in Patterns : ~HasWildcardEnding(q)} :
              \A h \in Handlers, m \in RegMethods :
                  registerDynamicRoute(p, h, m) =>
                      /\ last'.threw
                      /\ UNCHANGED <<routes, dynamicRoutes>>
        /\ last'.threw => UNCHANGED <<routes, dynamicRoutes>>]_vars

\* a call was rejected while both tables held a route
C11_Witness ==
    /\ last.op = "registerDynamicRoute"
    /\ last.threw
    /\ DOMAIN routes # {}
    /\ Len(dynamicRoutes) > 0

\* C12: a request whose method and normalized path have no exact route and
\* no fitting dynamic route of that method gets a status-404 response, and
\* no handler is called for it.
C12_UnmatchedIs404 ==
    [][DispatchStep =>
        LET method == http'.method
            pathname == NormalizePath(http'.path)
        IN  (/\ RouteKey(method, pathname) \notin DOMAIN routes
             /\ \A i \in 1..Len(dynamicRoutes) : ~Fits(i, method, pathname)) =>
            /\ http'.calls = << >>
            /\ http'.phase = "done"
            /\ Len(http'.response) = 1
            /\ http'.response[1].settled = "fulfilled"
            /\ http'.response[1].status = 404]_vars

\* a request got 404 while its path had an exact route under another method
\* and fitted the prefix of a dynamic route of another method
C12_Witness ==
    /\ http # Idle
    /\ http.calls = << >>
    /\ http.response[1].status = 404
    /\ \E m \in Methods \ {http.method} :
          RouteKey(m, NormalizePath(http.path)) \in DOMAIN routes
    /\ \E i \in 1..Len(dynamicRoutes) :
          /\ dynamicRoutes[i].key[1] # http.method
          /\ SegmentBounded(dynamicRoutes[i].prefix, NormalizePath(http.path))

\* C13: one handleHTTP call makes at most one handler call: none is added
\* while it is suspended, when it resumes, or after the handler has failed.
C13_AtMostOneCall ==
    [][/\ http' # Idle => Len(http'.calls) <= 1
       /\ (http # Idle /\ http' # Idle) => http'.calls = http.calls]_vars

\* the handler of an exact route failed while a dynamic route of the same
\* method fitted the request as well
C13_Witness ==
    /\ http # Idle
    /\ http.phase = "done"
    /\ http.failure # << >>
    /\ Len(http.calls) = 1
    /\ http.calls[1].table = "exact"
    /\ \E i \in 1..Len(dynamicRoutes) : Fits(i, http.method, NormalizePath(http.path))

\* the path without the slashes it ends in
Stem(path) ==
    LET ends == {k \in 0..Len(path) : \A j \in (k + 1)..Len(path) : path[j] = "/"}
        k == CHOOSE e \in ends : \A f \in ends : e <= f
    IN  SubSeq(path, 1, k)

\* C14: under every method and every state of the tables, a request path
\* and the same path with or without trailing slashes resolve alike: the
\* same handler with the same remainder, or no handler (404); so do "/" and
\* the empty path.
C14_TrailingSlashesResolveAlike ==
    [][DispatchStep =>
        \A q \in ReqPaths :
            Stem(q) = Stem(http'.path) => Resolve(http'.method, q) = http'.calls]_vars

\* the request for "/a/" called the handler of the exact route "/a"
C14_Witness ==
    /\ http # Idle
    /\ http.path = <<"/", "a", "/">>
    /\ http.calls # << >>
    /\ http.calls[1].table = "exact"
    /\ RouteKey(http.method, <<"/", "a">>) \in DOMAIN routes

(* ----------------------- hub properties, continued --------------------- *)
\* the positions at which the lines of content start
LineStarts(content) == {1} \cup {i + 1 : i \in {k \in 1..Len(content) : content[k] = "\n"}}

\* the line of content that starts at position s
LineAt(content, s) ==
    LET stops == {k \in s..(Len(content) + 1) : k = Len(content) + 1 \/ content[k] = "\n"}
        stop == CHOOSE k \in stops : \A j \in stops : k <= j
    IN  SubSeq(content, s, stop - 1)

\* one "data: <line>" line, newline included, for each line start
RECURSIVE ExpectedData(_, _)
ExpectedData(content, starts) ==
    IF starts = {}
    THEN << >>
    ELSE LET s == CHOOSE k \in starts : \A j \in starts : k <= j
         IN  <<"data: ">> \o LineAt(content, s) \o <<"\n">>
                \o ExpectedData(content, starts \ {s})

\* "event: <name>\n", the data lines, and the blank line that ends the frame
ExpectedFrame(eventName, content) ==
    <<"event: ", eventName, "\n">> \o ExpectedData(content, LineStarts(content)) \o <<"\n">>

\* "event: ping\ndata: a\ndata: b\n\n"
PingFrame == <<"event: ", "ping", "\n", "data: ", "a", "\n", "data: ", "b", "\n", "\n">>

C18_ConnectedFrameFirst ==
    [][/\ last'.op = "handleSSE" =>
            \E c \in Connections' \ Connections :
                /\ Connections' = Connections \cup {c}
                /\ sseConnections' = sseConnections \cup {c}
                /\ stream'[c].state = "open"
                /\ stream'[c].written = <<ConnectedFrame>>
                /\ \A d \in Connections : stream'[d] = stream[d]
       /\ \A c \in Connections' :
            /\ Len(stream'[c].written) >= 1
            /\ stream'[c].written[1] = ConnectedFrame
       /\ \A c \in Connections :
            \/ stream'[c].written = stream[c].written
            \/ /\ last'.op = "broadcastContent"
               /\ Len(stream'[c].written) = Len(stream[c].written) + 1
               /\ SubSeq(stream'[c].written, 1, Len(stream[c].written)) = stream[c].written]_vars

\* a connection holds the connection-established frame and, after it, the
\* frames of two broadcasts of different contents
C18_Witness ==
    \E c \in sseConnections :
        /\ Len(stream[c].written) = 3
        /\ stream[c].written[1] = ConnectedFrame
        /\ stream[c].written[2] # stream[c].written[3]
        /\ stream[c].written[2] # ConnectedFrame
        /\ stream[c].written[3] # ConnectedFrame

(* --------------------- route table properties -------------------------- *)
\* C16: registerRoute under a key that is already registered does not fail
\* and replaces the handler: the table holds one handler per key, that of
\* the latest registration, every other key keeps its handler, and a
\* dispatch that starts afterwards calls the handler the table holds.
C16_LaterRegistrationReplaces ==
    [][/\ (last'.op = "registerRoute" /\ http' = http) =>
            /\ ~last'.threw
            /\ \A p \in RoutePaths, h \in Handlers, m \in RegMethods :
                  registerRoute(p, h, m) =>
                      LET routeKey == <<ToUpperCase(m), ":">> \o p IN
                      /\ DOMAIN routes' = DOMAIN routes \cup {routeKey}
                      /\ routes'[routeKey] = h
                      /\ \A k \in DOMAIN routes \ {routeKey} : routes'[k] = routes[k]
       /\ DispatchStep =>
            \A k \in DOMAIN routes :
                k = <<http'.method, ":">> \o NormalizePath(http'.path) =>
                    http'.calls = ExactCall(routes[k])]_vars

\* a route was registered again with another handler while a request that
\* had called its earlier handler was still being handled
C16_Witness ==
    /\ last.op = "registerRoute"
    /\ http # Idle
    /\ http.calls # << >>
    /\ http.calls[1].table = "exact"
    /\ RouteKey(http.method, NormalizePath(http.path)) \in DOMAIN routes
    /\ routes[RouteKey(http.method, NormalizePath(http.path))] # http.calls[1].handler

\* C17: while handleHTTP is suspended awaiting the handler's result, no
\* step changes the exact table or the dynamic table.
C17_NoRegistrationDuringDispatch ==
    [][(http # Idle /\ http.phase = "awaiting") =>
        UNCHANGED <<routes, dynamicRoutes>>]_vars

\* C20: registerDynamicRoute with a pattern whose method and derived prefix
\* are those of a route the dynamic table holds replaces that route's
\* handler where it stands: the table keeps its length and its order, every
\* other route is left as it was, and no two entries ever share a method
\* and a prefix; with a new method and prefix the route is added at the end.
C20_ReRegistrationInPlace ==
    [][/\ (last'.op = "registerDynamicRoute" /\ ~last'.threw /\ http' = http) =>
            \A p \in {q \in Patterns : HasWildcardEnding(q)} :
                \A h \in Handlers, m \in RegMethods :
                    registerDynamicRoute(p, h, m) =>
                        LET prefix == DynamicPrefix(p)
                            same(i) == /\ dynamicRoutes[i].key[1] = ToUpperCase(m)
                                       /\ dynamicRoutes[i].prefix = prefix
                        IN  IF \E i \in 1..Len(dynamicRoutes) : same(i)
                            THEN /\ Len(dynamicRoutes') = Len(dynamicRoutes)
                                 /\ \A i \in 1..Len(dynamicRoutes) :
                                       IF same(i)
                                       THEN /\ dynamicRoutes'[i].handler = h
                                            /\ dynamicRoutes'[i].prefix = prefix
                                            /\ dynamicRoutes'[i].key = dynamicRoutes[i].key
                                       ELSE dynamicRoutes'[i] = dynamicRoutes[i]
                            ELSE /\ Len(dynamicRoutes') = Len(dynamicRoutes) + 1
                                 /\ SubSeq(dynamicRoutes', 1, Len(dynamicRoutes)) = dynamicRoutes
                                 /\ dynamicRoutes'[Len(dynamicRoutes')].handler = h
                                 /\ dynamicRoutes'[Len(dynamicRoutes')].prefix = prefix
                                 /\ dynamicRoutes'[Len(dynamicRoutes')].key[1] = ToUpperCase(m)
       /\ \A i, j \in 1..Len(dynamicRoutes') :
            (/\ dynamicRoutes'[i].key[1] = dynamicRoutes'[j].key[1]
             /\ dynamicRoutes'[i].prefix = dynamicRoutes'[j].prefix) => i = j]_vars

\* the first of two dynamic routes was registered again with another
\* handler while a request that had called its earlier handler was still
\* being handled, and it is still the first route
C20_Witness ==
    /\ last.op = "registerDynamicRoute"
    /\ ~last.threw
    /\ Len(dynamicRoutes) = 2
    /\ http # Idle
    /\ http.calls # << >>
    /\ http.calls[1].table = "dynamic"
    /\ dynamicRoutes[1].key[1] = http.method
    /\ dynamicRoutes[2].key[1] = http.method
    /\ dynamicRoutes[1].prefix = <<"/", "a">>
    /\ dynamicRoutes[2].prefix = << >>
    /\ http.calls[1].dynamicPath = << >>
    /\ NormalizePath(http.path) = <<"/", "a">>
    /\ http.calls[1].handler # dynamicRoutes[1].handler

(* -------------------------- encoder properties ------------------------- *)
EncoderNames == {"datastarConnected", "datastarMergeSignals", "datastarMergeFragments",
                 "datastarExecuteScript", "datastarRemoveSignals", "datastarRemoveFragments"}

\* the lines of a string, in order: the text between its newlines
LinesOf(str) ==
    LET starts == LineStarts(str)
        nth(n) == CHOOSE s \in starts : Cardinality({t \in starts : t < s}) = n - 1
    IN  [n \in 1..Cardinality(starts) |-> LineAt(str, nth(n))]

IsEventLine(line) == Len(line) >= 2 /\ line[1] = "event: "
IsDataLine(line) == Len(line) >= 1 /\ line[1] = "data: "

\* one event-name line, then one or more data lines, then the blank line
\* (the string ends in two newlines)
IsFrame(str) ==
    LET lines == LinesOf(str)
        n == Len(lines)
    IN  /\ n >= 4
        /\ IsEventLine(lines[1])
        /\ \A i \in 2..(n - 2) : IsDataLine(lines[i])
        /\ lines[n - 1] = << >>
        /\ lines[n] = << >>

\* the data lines of a frame
DataLinesOf(str) == LET lines == LinesOf(str) IN SubSeq(lines, 2, Len(lines) - 2)

\* C19: the string every encoder returns, for every input, an empty array
\* of paths included, is one event-name line, one or more data lines and a
\* terminating blank line; datastarRemoveSignals gives one
\* "data: paths <path>" line for each path of its input.
C19_EncodersGiveFrames ==
    last.op \in EncoderNames =>
        /\ IsFrame(last.output)
        /\ last.op = "datastarRemoveSignals" =>
              LET paths == last.input[1]
                  given == IF paths.isArray THEN paths.items ELSE <<paths.path>>
              IN  DataLinesOf(last.output)
                      = [i \in 1..Len(given) |-> <<"data: ", "paths ">> \o given[i]]

(* ------------------------- the hub after cleanup ----------------------- *)
\* C21: cleanup leaves the set empty, but the hub goes on working: a
\* handleSSE call made after cleanup has run adds its new connection, with
\* an open sink, to the set, and a later broadcastContent writes its frame
\* to every open member, so the set is empty right after cleanup and not
\* for ever after.
C21_CleanupNotTerminal ==
    [][/\ last'.op = "cleanup" => sseConnections' = {}
       /\ (last'.op = "handleSSE" /\ CleanupHasRun) =>
            \E c \in Connections' \ Connections :
                /\ sseConnections' = sseConnections \cup {c}
                /\ stream'[c].state = "open"
       /\ (last'.op = "broadcastContent" /\ CleanupHasRun) =>
            \A c \in sseConnections :
                stream[c].state = "open" =>
                    Len(stream'[c].written) = Len(stream[c].written) + 1]_vars

\* cleanup closed and removed one connection, and a connection opened
\* afterwards is in the set and has just received a broadcast frame
C21_Witness ==
    /\ last.op = "broadcastContent"
    /\ \E c \in Connections \ (aborted \cup sseConnections), d \in sseConnections :
          /\ c < d
          /\ stream[c].state = "ended"
          /\ stream[d].state = "open"
          /\ Len(stream[d].written) = 2
          /\ stream[d].written[1] = ConnectedFrame
          /\ Len(stream[c].written) = 1

====
